---- MODULE Spec2Model ----
(***************************************************************************)
(* Model of .github/workflows/random_file_gen.ts: a command line tool that *)
(* parses its options, then creates `count` random files in random         *)
(* directories under an output directory, one filesystem call at a time.   *)
(*                                                                         *)
(* The main coroutine is modelled between its awaits; the filesystem is a  *)
(* second party that completes (or fails) the calls in flight.             *)
(* Math.random() is a fraction k / RandRes with k in 0 .. RandRes-1; a     *)
(* random string is represented by its length, a random hex token by a     *)
(* sample of the right length.                                             *)
(***************************************************************************)
EXTENDS Integers, Sequences, FiniteSets, TLC

(* ---- bounds of the model ---- *)
MaxArgs == 4
MaxFiles == 2
RandRes == 2

(* ---- command line tokens ---- *)
Flags == {"--count", "--min", "--max", "--out", "--depth", "--help", "-h"}

Values == {"0", "1", "2", "-1", "abc", ""}

Tokens == Flags \cup Values

Argvs == UNION {[1..n -> Tokens] : n \in 0..MaxArgs}

(* the characters of a token, as parseInt reads them *)
Chars(tok) ==
  CASE tok = "0" -> <<"0">>
    [] tok = "1" -> <<"1">>
    [] tok = "2" -> <<"2">>
    [] tok = "-1" -> <<"-", "1">>
    [] tok = "abc" -> <<"a", "b", "c">>
    [] tok = "" -> <<>>
    [] tok = "-h" -> <<"-", "h">>
    [] tok = "--count" -> <<"-", "-", "c", "o", "u", "n", "t">>
    [] tok = "--min" -> <<"-", "-", "m", "i", "n">>
    [] tok = "--max" -> <<"-", "-", "m", "a", "x">>
    [] tok = "--out" -> <<"-", "-", "o", "u", "t">>
    [] tok = "--depth" -> <<"-", "-", "d", "e", "p", "t", "h">>
    [] tok = "--help" -> <<"-", "-", "h", "e", "l", "p">>

Digits == <<"0", "1", "2", "3", "4", "5", "6", "7", "8", "9">>

IsDigit(c) == \E d \in 1..10 : Digits[d] = c

DigitVal(c) == (CHOOSE d \in 1..10 : Digits[d] = c) - 1

(* ---- pure functions of the program ---- *)
NaN == [nan |-> TRUE, val |-> 0]

RECURSIVE SkipSpace(_, _)
SkipSpace(cs, j) ==
  IF j <= Len(cs) /\ cs[j] = " " THEN SkipSpace(cs, j + 1) ELSE j

RECURSIVE ReadDigits(_, _, _, _)
ReadDigits(cs, j, acc, seen) ==
  IF j <= Len(cs) /\ IsDigit(cs[j])
    THEN ReadDigits(cs, j + 1, 10 * acc + DigitVal(cs[j]), TRUE)
    ELSE [nan |-> ~seen, val |-> acc]

(* parseInt(s, 10): leading blanks, an optional sign, then the longest run *)
(* of decimal digits; NaN when there is no digit.                          *)
parseInt(tok) ==
  LET cs == Chars(tok)
      s == SkipSpace(cs, 1)
      signed == s <= Len(cs) /\ cs[s] \in {"-", "+"}
      neg == signed /\ cs[s] = "-"
      r == ReadDigits(cs, IF signed THEN s + 1 ELSE s, 0, FALSE)
  IN IF r.nan THEN NaN
     ELSE [nan |-> FALSE, val |-> IF neg THEN 0 - r.val ELSE r.val]

OrElseAlways(p, cur) == p.val

(* `p || cur` on numbers: NaN and 0 are falsy *)
OrElse(p, cur) == IF p.nan \/ p.val = 0 THEN cur ELSE p.val

Max(a, b) == IF a > b THEN a ELSE b

Rand == 0..(RandRes - 1)

rndIntWide(min, max, k) == ((k * (max - min + 2)) \div RandRes) + min

(* Math.floor(Math.random() * (max - min + 1)) + min, Math.random() = k/RandRes *)
rndInt(min, max, k) == ((k * (max - min + 1)) \div RandRes) + min

HexSamples == {"a3f09c", "0b1e22d4"}

(* rndHex(len): the hex tokens of `len` characters *)
rndHex(len) == {h \in HexSamples : Len(h) = len}

(* rndString(len): the loop appends one letter while i < len *)
rndStringLen(len) == IF len > 0 THEN len ELSE 0

exts == <<".html", ".js", ".css", ".txt">>

(* pick(arr) = arr[Math.floor(Math.random() * arr.length)] *)
pick(arr, k) == arr[((k * Len(arr)) \div RandRes) + 1]

Cwd == <<"cwd">>

(* path.resolve(process.cwd(), p) for a plain relative name p *)
resolve(p) == Cwd \o <<p>>

(* path.relative(process.cwd(), f) for f under the working directory *)
relative(f) == SubSeq(f, Len(Cwd) + 1, Len(f))

DEFAULTS ==
  [outDir |-> resolve("dist"), count |-> 20, minLen |-> 50, maxLen |-> 500,
   maxDepth |-> 3]

IsHelpLongOnly(a) == a = "--help"

IsHelp(a) == a = "--help" \/ a = "-h"

DepthBoundRaw(maxDepth) == maxDepth

(* Math.max(1, maxDepth) *)
DepthBound(maxDepth) == Max(1, maxDepth)

ClampKeepMin(o) ==
  [o EXCEPT !.maxLen = IF o.maxLen < o.minLen THEN o.minLen ELSE o.maxLen]

(* the two `sanity` lines *)
Clamp(o) ==
  LET m == [o EXCEPT !.minLen = IF o.minLen < 0 THEN 0 ELSE o.minLen]
  IN [m EXCEPT !.maxLen = IF m.maxLen < m.minLen THEN m.minLen ELSE m.maxLen]

LoopTestOffByOne(i, count) == i <= count

(* the loop test `i < opts.count` *)
LoopTest(i, count) == i < count

NoAwait == FALSE

(* `await`: the caller is suspended until the call in flight settles *)
Await == TRUE

Swallowed == FALSE

(* no try/catch around the awaits: a rejection leaves main and reaches *)
(* main().catch                                                        *)
Propagates == TRUE

Usage == [kind |-> "usage", n |-> 0, path |-> <<>>]

SummaryLine(n, dir) == [kind |-> "summary", n |-> n, path |-> dir]

PathLine(f) == [kind |-> "path", n |-> 0, path |-> relative(f)]

RECURSIVE Prefixes(_)
Prefixes(p) ==
  IF Len(p) <= Len(Cwd) THEN {}
  ELSE {p} \cup Prefixes(SubSeq(p, 1, Len(p) - 1))

(* ---- state ---- *)
VARIABLES
  argv,      \* process.argv.slice(2)
  i,         \* index of the parse loop (1-based)
  opts,      \* the options record
  pc,        \* where main continues
  awaiting,  \* main is suspended on an await
  settled,   \* how the awaited call settled: "none", "ok", "err"
  iter,      \* index of the generation loop
  dir,       \* directory of the current iteration
  file,      \* path of the file of the current iteration
  created,   \* the accumulated list of paths
  pending,   \* filesystem calls in flight
  dirs,      \* directories on disk
  files,     \* files on disk
  writes,    \* paths of the completed writeFile calls, in order
  stdout,
  stderr,
  exitCode   \* << >> while the process runs, then <<code>>

vars ==
  <<argv, i, opts, pc, awaiting, settled, iter, dir, file, created, pending,
    dirs, files, writes, stdout, stderr, exitCode>>

fsVars == <<pending, dirs, files, writes>>

Init ==
  /\ argv \in Argvs
  /\ i = 1
  /\ opts = DEFAULTS
  /\ pc = "parse"
  /\ awaiting = FALSE
  /\ settled = "none"
  /\ iter = 0
  /\ dir = <<>>
  /\ file = <<>>
  /\ created = <<>>
  /\ pending = {}
  /\ dirs = {}
  /\ files = {}
  /\ writes = <<>>
  /\ stdout = <<>>
  /\ stderr = <<>>
  /\ exitCode = <<>>

(* main can take a step: the process lives, main is not suspended and no *)
(* rejection has thrown it out of its body                               *)
Running == exitCode = <<>> /\ ~awaiting /\ ~(settled = "err" /\ Propagates)

(* `argv[i + 1]` is truthy: present and not the empty string *)
HasValue == i + 1 <= Len(argv) /\ argv[i + 1] # ""

(* one iteration of the option loop *)
ParseArg ==
  /\ Running /\ pc = "parse" /\ i <= Len(argv)
  /\ LET a == argv[i]
         v == parseInt(argv[i + 1])
     IN IF a = "--count" /\ HasValue
          THEN /\ opts' = [opts EXCEPT !.count = OrElse(v, opts.count)]
               /\ i' = i + 2
               /\ UNCHANGED <<pc, stdout, exitCode>>
        ELSE IF a = "--min" /\ HasValue
          THEN /\ opts' = [opts EXCEPT !.minLen = OrElse(v, opts.minLen)]
               /\ i' = i + 2
               /\ UNCHANGED <<pc, stdout, exitCode>>
        ELSE IF a = "--max" /\ HasValue
          THEN /\ opts' = [opts EXCEPT !.maxLen = OrElse(v, opts.maxLen)]
               /\ i' = i + 2
               /\ UNCHANGED <<pc, stdout, exitCode>>
        ELSE IF a = "--out" /\ HasValue
          THEN /\ opts' = [opts EXCEPT !.outDir = resolve(argv[i + 1])]
               /\ i' = i + 2
               /\ UNCHANGED <<pc, stdout, exitCode>>
        ELSE IF a = "--depth" /\ HasValue
          THEN /\ opts' = [opts EXCEPT !.maxDepth = OrElse(v, opts.maxDepth)]
               /\ i' = i + 2
               /\ UNCHANGED <<pc, stdout, exitCode>>
        ELSE IF IsHelp(a)
          THEN /\ stdout' = Append(stdout, Usage)
               /\ exitCode' = <<0>>
               /\ pc' = "helpExit"
               /\ UNCHANGED <<opts, i>>
        ELSE /\ i' = i + 1
             /\ UNCHANGED <<opts, pc, stdout, exitCode>>
  /\ UNCHANGED <<argv, awaiting, settled, iter, dir, file, created, stderr>>
  /\ UNCHANGED fsVars

(* the option loop ends; the two sanity lines *)
Sanity ==
  /\ Running /\ pc = "parse" /\ i > Len(argv)
  /\ opts' = Clamp(opts)
  /\ pc' = "resolved"
  /\ UNCHANGED <<argv, i, awaiting, settled, iter, dir, file, created, stdout,
                 stderr, exitCode>>
  /\ UNCHANGED fsVars

MkdirOp(p) == [kind |-> "mkdir", path |-> p, len |-> 0]

WriteOp(p, n) == [kind |-> "writeFile", path |-> p, len |-> n]

(* await fs.mkdir(opts.outDir, {recursive: true}); argv and the loop index *)
(* are read nowhere after the option loop and are dropped here.            *)
MkdirBase ==
  /\ Running /\ pc = "resolved"
  /\ pending' = pending \cup {MkdirOp(opts.outDir)}
  /\ awaiting' = Await
  /\ settled' = "none"
  /\ pc' = "loop"
  /\ argv' = <<>>
  /\ i' = 0
  /\ UNCHANGED <<opts, iter, dir, file, created, dirs, files, writes, stdout,
                 stderr, exitCode>>

(* the loop test, then makeRandomDir up to its await; the model follows a *)
(* run for MaxFiles iterations                                           *)
MakeRandomDir ==
  /\ Running /\ pc = "loop"
  /\ LoopTest(iter, opts.count) /\ iter < MaxFiles
  /\ \E k \in Rand :
       LET depth == rndInt(1, DepthBound(opts.maxDepth), k)
       IN \E parts \in [1..Max(0, depth) -> rndHex(6)] :
            /\ dir' = opts.outDir \o parts
            /\ pending' = pending \cup {MkdirOp(opts.outDir \o parts)}
  /\ awaiting' = Await
  /\ settled' = "none"
  /\ pc' = "makeFile"
  /\ UNCHANGED <<argv, i, opts, iter, file, created, dirs, files, writes,
                 stdout, stderr, exitCode>>

(* makeRandomFile up to its await *)
MakeRandomFile ==
  /\ Running /\ pc = "makeFile"
  /\ \E ke \in Rand, kl \in Rand, h \in rndHex(8) :
       LET ext == pick(exts, ke)
           name == "file_" \o h \o ext
           len == rndInt(opts.minLen, opts.maxLen, kl)
           fullPath == dir \o <<name>>
       IN /\ file' = fullPath
          /\ pending' = pending \cup {WriteOp(fullPath, rndStringLen(len))}
  /\ awaiting' = Await
  /\ settled' = "none"
  /\ pc' = "push"
  /\ UNCHANGED <<argv, i, opts, iter, dir, created, dirs, files, writes,
                 stdout, stderr, exitCode>>

(* created.push(file); i++ *)
Push ==
  /\ Running /\ pc = "push"
  /\ created' = Append(created, file)
  /\ iter' = iter + 1
  /\ pc' = "loop"
  /\ UNCHANGED <<argv, i, opts, awaiting, settled, dir, file, stdout, stderr,
                 exitCode>>
  /\ UNCHANGED fsVars

(* the loop is over: the summary and the listing; the process ends with 0 *)
Finish ==
  /\ Running /\ pc = "loop"
  /\ ~LoopTest(iter, opts.count)
  /\ stdout' = stdout \o <<SummaryLine(Len(created), opts.outDir)>>
                 \o [j \in 1..Len(created) |-> PathLine(created[j])]
  /\ exitCode' = <<0>>
  /\ pc' = "done"
  /\ UNCHANGED <<argv, i, opts, awaiting, settled, iter, dir, file, created,
                 stderr>>
  /\ UNCHANGED fsVars

(* the filesystem completes a call *)
FsOk ==
  /\ exitCode = <<>>
  /\ \E op \in pending :
       /\ pending' = pending \ {op}
       /\ IF op.kind = "mkdir"
            THEN /\ dirs' = dirs \cup Prefixes(op.path)
                 /\ UNCHANGED <<files, writes>>
            ELSE /\ SubSeq(op.path, 1, Len(op.path) - 1) \in dirs
                 /\ files' = files \cup {op.path}
                 /\ writes' = Append(writes, op.path)
                 /\ UNCHANGED dirs
  /\ awaiting' = FALSE
  /\ settled' = IF awaiting THEN "ok" ELSE settled
  /\ UNCHANGED <<argv, i, opts, pc, iter, dir, file, created, stdout, stderr,
                 exitCode>>

(* the filesystem fails a call; a failed recursive mkdir may have made the *)
(* parents, a failed write may have made the file                          *)
FsFail ==
  /\ exitCode = <<>>
  /\ \E op \in pending, partial \in BOOLEAN :
       /\ pending' = pending \ {op}
       /\ IF op.kind = "mkdir"
            THEN /\ dirs' = IF partial
                              THEN dirs \cup (Prefixes(op.path) \ {op.path})
                              ELSE dirs
                 /\ UNCHANGED files
            ELSE /\ files' = IF partial THEN files \cup {op.path} ELSE files
                 /\ UNCHANGED dirs
  /\ awaiting' = FALSE
  /\ settled' = IF awaiting THEN "err" ELSE settled
  /\ UNCHANGED <<argv, i, opts, pc, iter, dir, file, created, writes, stdout,
                 stderr, exitCode>>

(* main().catch: console.error and process.exit(1) *)
Catch ==
  /\ exitCode = <<>> /\ ~awaiting /\ settled = "err" /\ Propagates
  /\ stderr' = Append(stderr, "Error:")
  /\ exitCode' = <<1>>
  /\ pc' = "errorExit"
  /\ UNCHANGED <<argv, i, opts, awaiting, settled, iter, dir, file, created,
                 stdout>>
  /\ UNCHANGED fsVars

Next ==
  \/ ParseArg
  \/ Sanity
  \/ MkdirBase
  \/ MakeRandomDir
  \/ MakeRandomFile
  \/ Push
  \/ Finish
  \/ FsOk
  \/ FsFail
  \/ Catch

Spec == Init /\ [][Next]_vars

(* ---- the argument sequence as the claims read it ---- *)
ValueFlags == {"--count", "--min", "--max", "--out", "--depth"}

NumFlags == {"--count", "--min", "--max", "--depth"}

HelpFlags == {"--help", "-h"}

IntTok == {"0", "1", "2", "-1"}

IntOf(tok) ==
  CASE tok = "0" -> 0
    [] tok = "1" -> 1
    [] tok = "2" -> 2
    [] tok = "-1" -> 0 - 1

(* the value tokens that follow the occurrences of `flag` read as a flag *)
RECURSIVE ValuesOf(_, _, _)
ValuesOf(av, flag, j) ==
  IF j > Len(av) THEN <<>>
  ELSE IF av[j] \in ValueFlags /\ j + 1 <= Len(av) /\ av[j + 1] # ""
    THEN (IF av[j] = flag THEN <<av[j + 1]>> ELSE <<>>)
           \o ValuesOf(av, flag, j + 2)
  ELSE ValuesOf(av, flag, j + 1)

(* a help flag stands where a flag is read, not where a value is read *)
RECURSIVE HelpAsFlag(_, _)
HelpAsFlag(av, j) ==
  /\ j <= Len(av)
  /\ IF av[j] \in ValueFlags /\ j + 1 <= Len(av) /\ av[j + 1] # ""
       THEN HelpAsFlag(av, j + 2)
       ELSE av[j] \in HelpFlags \/ HelpAsFlag(av, j + 1)

HasHelp(av) == \E j \in 1..Len(av) : av[j] \in HelpFlags

Last(sq) == sq[Len(sq)]

NoDup(sq) == \A a, b \in 1..Len(sq) : a # b => sq[a] # sq[b]

Range(sq) == {sq[j] : j \in 1..Len(sq)}

Parent(p) == SubSeq(p, 1, Len(p) - 1)

(* directory segments between the output directory and a file *)
Depth(f) == Len(f) - Len(opts.outDir) - 1

NoFs == pending = {} /\ dirs = {} /\ files = {} /\ writes = <<>>

PastSanity == pc \notin {"parse", "helpExit"}

Summaries == {j \in 1..Len(stdout) : stdout[j].kind = "summary"}

Listing == [j \in 1..(Len(stdout) - 1) |-> stdout[j + 1].path]

(* C1: a run that ends without a filesystem failure and whose resolved     *)
(* count is not negative has performed exactly count writes, accumulated   *)
(* count paths and reported count files; the files on disk are count many  *)
(* unless two iterations chose the same path.                              *)
C1_CountExact ==
  /\ (PastSanity /\ opts.count >= 0) =>
       (Len(writes) <= opts.count /\ Len(created) <= opts.count)
  /\ (pc = "done" /\ opts.count >= 0) =>
    /\ Len(writes) = opts.count
    /\ Len(created) = opts.count
    /\ stdout[1] = SummaryLine(opts.count, opts.outDir)
    /\ Len(stdout) = opts.count + 1
    /\ Cardinality(files) = Cardinality(Range(created))
    /\ (NoDup(created) => Cardinality(files) = opts.count)
    /\ (~NoDup(created) => Cardinality(files) < opts.count)

C1_Witness ==
  pc = "done" /\ opts.count = 2 /\ Cardinality(files) = 2 /\ Len(writes) = 2

C1_CollisionReached ==
  pc = "done" /\ opts.count = 2 /\ Cardinality(files) = 1

(* C2: with the arguments `--count 0` the generation loop is entered with  *)
(* a count of 0, so that no random directory and no file is created.       *)
C2_CountZero ==
  (argv = <<"--count", "0">> /\ PastSanity) =>
    (opts.count = 0 /\ ~LoopTest(0, opts.count))

(* C3: when the integer given with --max is less than the integer given    *)
(* with --min, the maximum the loop uses equals the minimum it uses.       *)
C3_MaxRaisedToMin ==
  LET mins == ValuesOf(argv, "--min", 1)
      maxs == ValuesOf(argv, "--max", 1)
  IN (/\ pc = "resolved"
      /\ Len(mins) = 1 /\ Len(maxs) = 1
      /\ mins[1] \in IntTok /\ maxs[1] \in IntTok
      /\ IntOf(maxs[1]) < IntOf(mins[1]))
     => opts.maxLen = opts.minLen

(* C4: the configuration the generation loop uses has                      *)
(* 0 <= minLen <= maxLen, and when the value given with --min (the last    *)
(* one, if the flag is repeated) is a negative integer the minimum is 0.   *)
C4_RangeOrdered ==
  /\ PastSanity => (0 <= opts.minLen /\ opts.minLen <= opts.maxLen)
  /\ LET mins == ValuesOf(argv, "--min", 1)
     IN (/\ pc = "resolved" /\ mins # <<>>
         /\ Last(mins) \in IntTok /\ IntOf(Last(mins)) < 0)
        => opts.minLen = 0

C4_Witness ==
  /\ pc = "resolved" /\ argv = <<"--min", "-1">>
  /\ opts.minLen = 0 /\ opts.maxLen = 500

(* C5: the payload of every file makeRandomFile writes has a length in     *)
(* [minLen, maxLen], hence exactly minLen when minLen = maxLen.            *)
C5_PayloadInRange ==
  \A op \in pending :
    op.kind = "writeFile" =>
      (opts.minLen <= op.len /\ op.len <= opts.maxLen)

C5_Witness ==
  \E op \in pending :
    /\ op.kind = "writeFile" /\ iter = 1
    /\ opts.minLen = 2 /\ opts.maxLen = 2 /\ op.len = 2

C5_SpreadReached ==
  \E op \in pending :
    op.kind = "writeFile" /\ opts.minLen < op.len /\ opts.minLen = 1

C6_DeepReached == \E f \in files : opts.maxDepth = 3 /\ Depth(f) = 2

(* C7 as stated: whenever --help or -h is among the arguments, usage is    *)
(* printed, the exit code is 0 and nothing is created.                     *)
C7_HelpAnywhere ==
  HasHelp(argv) =>
    /\ pc \in {"parse", "helpExit"}
    /\ NoFs
    /\ pc = "helpExit" => (stdout = <<Usage>> /\ exitCode = <<0>>)

(* C7 amended: whenever --help or -h stands where a flag is read (it is    *)
(* not the value of a preceding --count, --min, --max, --out or --depth),  *)
(* usage is printed, the exit code is 0 and nothing is created.            *)
C7_HelpAsFlag ==
  HelpAsFlag(argv, 1) =>
    /\ pc \in {"parse", "helpExit"}
    /\ NoFs
    /\ pc = "helpExit" => (stdout = <<Usage>> /\ exitCode = <<0>> /\ stderr = <<>>)
    /\ pc = "parse" => (i <= Len(argv) /\ exitCode = <<>>)

C7_Witness ==
  /\ pc = "helpExit" /\ argv = <<"--count", "2", "-h", "--out">>
  /\ stdout = <<Usage>> /\ exitCode = <<0>> /\ NoFs

(* C8: a numeric flag whose following token is no integer, or that is the  *)
(* last token, leaves every option as it was, raises no error and lets the *)
(* run go on; `--count abc` gives a count of 20.                           *)
C8_Step ==
  (/\ pc = "parse" /\ i <= Len(argv) /\ argv[i] \in NumFlags
   /\ (i = Len(argv) \/ argv[i + 1] \notin IntTok))
  => (/\ opts' = opts /\ pc' = "parse" /\ i' > i
      /\ exitCode' = <<>> /\ stderr' = <<>> /\ stdout' = stdout)

C8_InvalidKeepsValue ==
  /\ [][C8_Step]_vars
  /\ []((pc = "resolved" /\ argv = <<"--count", "abc">>) => opts.count = 20)

C8_Witness ==
  /\ pc = "resolved" /\ argv = <<"--count", "2", "--count", "abc">>
  /\ opts.count = 2

C8_DefaultReached ==
  pc = "resolved" /\ argv = <<"--count", "abc">> /\ opts = DEFAULTS

(* C9: after a directory creation or a write has failed no filesystem call *)
(* is made, the summary is not printed, the only exit is the one with      *)
(* status 1 after the error message, and the files on disk stay.           *)
C9_Step ==
  /\ files \subseteq files'
  /\ settled = "err" =>
       /\ pending' = pending /\ dirs' = dirs /\ files' = files
       /\ writes' = writes /\ created' = created
       /\ settled' = "err"
       /\ exitCode' \in {<<>>, <<1>>}

C9_FailureAborts ==
  /\ [][C9_Step]_vars
  /\ [](settled = "err" => (pending = {} /\ Summaries = {}))
  /\ [](exitCode = <<1>> => (settled = "err" /\ stderr = <<"Error:">>))
  /\ []((settled = "err" /\ exitCode = <<>>) => ENABLED Catch)

C9_Witness ==
  /\ exitCode = <<1>> /\ stderr = <<"Error:">> /\ Summaries = {}
  /\ Len(created) = 1 /\ created[1] \in files /\ pc = "errorExit"

(* C10: the filesystem calls are made one after another: the output        *)
(* directory first, then per iteration the directory and, once it exists,  *)
(* the file in it; a call is made only when none is in flight, and the     *)
(* paths are reported in the order of the writes.                          *)
C10_Sequential ==
  /\ Cardinality(pending) <= 1
  /\ pending # {} => awaiting
  /\ \A op \in pending :
       /\ op.path # opts.outDir =>
            (opts.outDir \in dirs /\ Len(created) = iter /\ created = writes)
       /\ (op.kind = "mkdir" /\ op.path # opts.outDir) => op.path = dir
       /\ op.kind = "writeFile" =>
            (Parent(op.path) = dir /\ dir \in dirs /\ op.path = file)
  /\ Len(created) <= Len(writes) /\ Len(writes) <= Len(created) + 1
  /\ created = SubSeq(writes, 1, Len(created))
  /\ Range(writes) \subseteq files
  /\ \A f \in files : Parent(f) \in dirs
  /\ pc = "done" =>
       Listing = [j \in 1..Len(writes) |-> relative(writes[j])]

C10_Witness ==
  /\ pc = "done" /\ Len(writes) = 2 /\ writes[1] # writes[2]
  /\ Listing = <<relative(writes[1]), relative(writes[2])>>

C10_SecondIterationInFlight ==
  \E op \in pending : op.kind = "mkdir" /\ iter = 1 /\ Len(writes) = 1

====
